---- MODULE Spec2Model ----
(***************************************************************************)
(* A model of src/src/partr.c: the multi-queue of task heaps, the sleep    *)
(* controller and the acquisition loop of the parallel task runtime.       *)
(*                                                                         *)
(* Every thread is a Julia thread: outside jl_task_get_next it runs user   *)
(* code, which may call jl_enqueue_task followed by jl_wakeup_thread.      *)
(* One action is one atomic step of the code: a step holds at most one     *)
(* access to memory that another thread can change at that moment (the     *)
(* code under a heap's lock is one step, since only the lock's holder      *)
(* touches the heap's tasks).                                              *)
(***************************************************************************)
EXTENDS Integers, Sequences, FiniteSets, TLC

\* ---------------------------------------------------------------- constants

INT16_MAX == 32767

\* heap_d (partr.c:36, 8 in the source), heap_c (partr.c:37, 4 in the source)
\* and tasks_per_heap (partr.c:40, 8192 in the source) are scaled down: they
\* bound the model.  SPIN_LIMIT is the literal 1000 of partr.c:393.
heap_d == 2
heap_c == 1
tasks_per_heap == 5
SPIN_LIMIT == 0

\* the sleep_check_state values (partr.c:57-59)
not_sleeping == 0
checking_for_sleeping == 1
sleeping == 2

\* Bounds of the environment: the threads and the task handles that exist.
MaxThreads == 2
MaxTasks == 2
MaxParkTasks == 1

NULL == 0
NoThread == -1

\* The priorities the environment gives to tasks (task->prio, int16_t).
Prios == {0, 1}
HeapPrios == {0, 1}

VARIABLES
    jl_n_threads,       \* number of Julia threads (read at partr.c:69)
    heap_p,             \* partr.c:44, set by multiq_init
    sleep_threshold,    \* partr.c:62, set by jl_init_threadinginfra
    heaps,              \* partr.c:43: heaps[r] = [lock, tasks, ntasks, prio]
    tprio,              \* task->prio of every task handle
    ttid,               \* task->tid of every task handle
    sleep_check_state,  \* partr.c:60
    uv_owner,           \* jl_uv_mutex.owner
    uv_pending,         \* an event-loop wakeup (jl_wake_libuv) is pending
    signalled,          \* signalled[p]: p's cond_wait has been signalled
    th,                 \* th[p]: thread p's position and locals
    crashed,            \* the process has faulted (load through a NULL task)
    outstanding,        \* history: enqueues minus returns, per task
    ev,                 \* history: what the last step did
    sifting             \* the frames of sift_down at the source's own sizes

vars == <<jl_n_threads, heap_p, sleep_threshold, heaps, tprio, ttid,
          sleep_check_state, uv_owner, uv_pending, signalled, th, crashed,
          outstanding, ev, sifting>>

Threads == 0 .. (jl_n_threads - 1)
Shards == 0 .. (heap_p - 1)
Tasks == DOMAIN tprio
Slots == 0 .. (tasks_per_heap - 1)

\* ------------------------------------------------------------------- heaps

\* int16_t arithmetic: the value an int takes when stored in an int16_t
ToInt16(x) == ((x + 32768) % 65536) - 32768

Swap(tasks, a, b) == [tasks EXCEPT ![a] = tasks[b], ![b] = tasks[a]]

\* sift_up (partr.c:83-94)
RECURSIVE sift_up(_, _)
sift_up(tasks, idx) ==
    IF idx > 0
    THEN LET parent == (idx - 1) \div heap_d IN
         IF tprio[tasks[idx]] < tprio[tasks[parent]]
         THEN sift_up(Swap(tasks, parent, idx), parent)
         ELSE tasks
    ELSE tasks

\* a sift-down that swaps with the lower children and does not recurse
RECURSIVE sift_down_loop_flat(_, _, _, _)
sift_down_loop_flat(tasks, ntasks, idx, child) ==
    IF child < tasks_per_heap /\ child <= heap_d * idx + heap_d
    THEN IF tasks[child] # NULL /\ tprio[tasks[child]] < tprio[tasks[idx]]
         THEN sift_down_loop_flat(Swap(tasks, idx, child), ntasks, idx,
                                  ToInt16(child + 1))
         ELSE sift_down_loop_flat(tasks, ntasks, idx, ToInt16(child + 1))
    ELSE tasks

\* sift_down (partr.c:99-114): every child found lower than the node is
\* swapped with it in turn, and the swapped child is sifted down.
RECURSIVE sift_down(_, _, _)
RECURSIVE sift_down_loop(_, _, _, _)
sift_down_loop(tasks, ntasks, idx, child) ==
    IF child < tasks_per_heap /\ child <= heap_d * idx + heap_d
    THEN IF tasks[child] # NULL /\ tprio[tasks[child]] < tprio[tasks[idx]]
         THEN sift_down_loop(sift_down(Swap(tasks, idx, child), ntasks, child),
                             ntasks, idx, ToInt16(child + 1))
         ELSE sift_down_loop(tasks, ntasks, idx, ToInt16(child + 1))
    ELSE tasks

sift_down(tasks, ntasks, idx) ==
    IF idx < ntasks
    THEN sift_down_loop(tasks, ntasks, idx, ToInt16(heap_d * idx + 1))
    ELSE tasks

\* the heap after partr.c:135-136: append the task, sift it up
heap_push(h, t) ==
    [h EXCEPT !.tasks = sift_up([h.tasks EXCEPT ![h.ntasks] = t], h.ntasks),
              !.ntasks = h.ntasks + 1]

\* a pop that leaves the vacated slot as it was
heap_pop_keep(h) ==
    LET n == h.ntasks - 1
        moved == [h.tasks EXCEPT ![0] = h.tasks[n]]
        sifted == IF n > 0 THEN sift_down(moved, n, 0) ELSE moved
    IN  [h EXCEPT !.tasks = sifted,
                  !.ntasks = n,
                  !.prio = IF n > 0 THEN tprio[sifted[0]] ELSE INT16_MAX]

\* the heap after partr.c:182-189: the last task replaces the root, the
\* vacated slot is cleared, the root is sifted down, prio is stored
heap_pop(h) ==
    LET n == h.ntasks - 1
        moved == [[h.tasks EXCEPT ![0] = h.tasks[n]] EXCEPT ![n] = NULL]
        sifted == IF n > 0 THEN sift_down(moved, n, 0) ELSE moved
    IN  [h EXCEPT !.tasks = sifted,
                  !.ntasks = n,
                  !.prio = IF n > 0 THEN tprio[sifted[0]] ELSE INT16_MAX]

\* multiq_init (partr.c:67-78): the state of one heap
EmptyHeap ==
    [lock |-> NoThread, tasks |-> [s \in Slots |-> NULL], ntasks |-> 0,
     prio |-> INT16_MAX]

\* ----------------------------------------------------------------- threads

Idle ==
    [pc |-> "run", site |-> 0, i |-> 0, rn |-> 0, prio |-> 0, task |-> NULL,
     spin_count |-> 0, start_cycles |-> FALSE, tid |-> 0]

\* what the last step did: its kind, the thread, the task, the heap, a number
\* (the count or the owner seen before the step), the cached priority the
\* thread held and the heap as it was before the step
NoEv == [type |-> "none", p |-> NoThread, t |-> NULL, rn |-> -1, n |-> -1,
         prio |-> 0, old |-> EmptyHeap]

Event(type, p, t, rn, n, prio, old) ==
    [type |-> type, p |-> p, t |-> t, rn |-> rn, n |-> n, prio |-> prio,
     old |-> old]

\* thread p back in user code, about to call jl_wakeup_thread for the task it
\* has enqueued
ToWake(p) == [Idle EXCEPT !.pc = "wake", !.task = th[p].task]

\* a task the environment may pass to jl_enqueue_task or that the sticky
\* queue may hold: it is in no heap and no insert of it is under way
Free(t) ==
    /\ outstanding[t] = 0
    /\ \A q \in Threads :
         ~(th[q].pc \in {"ins_lock", "ins_push"} /\ th[q].task = t)

\* ----------------------------------------------------------- initial state

\* no sift_down in progress: no frame, no slot read yet
NoSift == [ntasks |-> 0, frames |-> <<>>, read |-> <<>>, fault |-> FALSE]

\* jl_init_threadinginfra (partr.c:248-268) with n threads, the given
\* threshold and the given task handles, none of which has run yet
InitWith(n, threshold, ntasks, prios) ==
    /\ jl_n_threads = n
    /\ heap_p = heap_c * n
    /\ sleep_threshold = threshold
    /\ heaps = [r \in 0 .. (heap_c * n - 1) |-> EmptyHeap]
    /\ tprio \in [1 .. ntasks -> prios]
    /\ \A t \in 1 .. (ntasks - 1) : tprio[t] <= tprio[t + 1]
    /\ ttid = [t \in 1 .. ntasks |-> -1]
    /\ sleep_check_state = not_sleeping
    /\ uv_owner = NoThread
    /\ uv_pending = FALSE
    /\ signalled = [p \in 0 .. (n - 1) |-> FALSE]
    /\ th = [p \in 0 .. (n - 1) |-> Idle]
    /\ crashed = FALSE
    /\ outstanding = [t \in 1 .. ntasks |-> 0]
    /\ ev = NoEv
    /\ sifting = NoSift

\* ------------------------------------------------------------ multiq_insert

\* jl_enqueue_task (partr.c:358-361) called by user code on thread p;
\* partr.c:124 stores the priority the task already has
jl_enqueue_task(p) ==
    /\ ~crashed
    /\ th[p].pc = "run"
    /\ \E t \in Tasks :
         /\ Free(t)
         /\ th' = [th EXCEPT ![p] = [Idle EXCEPT !.pc = "ins_lock", !.task = t]]
    /\ ev' = NoEv
    /\ UNCHANGED sifting
    /\ UNCHANGED <<jl_n_threads, heap_p, sleep_threshold, heaps, tprio, ttid,
                   sleep_check_state, uv_owner, uv_pending, signalled, crashed,
                   outstanding>>

\* partr.c:125-127: pick random heaps until a trylock succeeds
multiq_insert_trylock(p) ==
    /\ ~crashed
    /\ th[p].pc = "ins_lock"
    /\ \E rn \in Shards :
         /\ heaps[rn].lock = NoThread
         /\ heaps' = [heaps EXCEPT ![rn].lock = p]
         /\ th' = [th EXCEPT ![p].pc = "ins_push", ![p].rn = rn]
    /\ ev' = NoEv
    /\ UNCHANGED sifting
    /\ UNCHANGED <<jl_n_threads, heap_p, sleep_threshold, tprio, ttid,
                   sleep_check_state, uv_owner, uv_pending, signalled, crashed,
                   outstanding>>

\* a capacity test that is off by one
heap_full_early(h) == h.ntasks >= tasks_per_heap - 1

\* partr.c:129: the capacity test
heap_full(h) == h.ntasks >= tasks_per_heap

\* partr.c:129-137: under the lock, fail when the heap is full, else push
multiq_insert_push(p) ==
    LET rn == th[p].rn
        t == th[p].task
        h == heaps[rn]
    IN  /\ ~crashed
        /\ th[p].pc = "ins_push"
        /\ IF heap_full(h)
           THEN /\ heaps' = [heaps EXCEPT ![rn].lock = NoThread]
                /\ th' = [th EXCEPT ![p] = Idle]
                /\ ev' = Event("ins_full", p, t, rn, h.ntasks, 0, h)
                /\ UNCHANGED outstanding
           ELSE /\ heaps' = [heaps EXCEPT
                               ![rn] = [heap_push(h, t) EXCEPT !.lock = NoThread]]
                /\ th' = [th EXCEPT ![p].pc = "ins_load"]
                /\ ev' = Event("ins_ok", p, t, rn, h.ntasks, 0, h)
                /\ outstanding' = [outstanding EXCEPT ![t] = @ + 1]
        /\ UNCHANGED sifting
        /\ UNCHANGED <<jl_n_threads, heap_p, sleep_threshold, tprio, ttid,
                       sleep_check_state, uv_owner, uv_pending, signalled,
                       crashed>>

\* partr.c:138-139: load the cached priority, compare
multiq_insert_load(p) ==
    LET prio == heaps[th[p].rn].prio IN
    /\ ~crashed
    /\ th[p].pc = "ins_load"
    /\ th' = [th EXCEPT ![p] = IF tprio[th[p].task] < prio
                                THEN [@ EXCEPT !.pc = "ins_cas", !.prio = prio]
                                ELSE ToWake(p)]
    /\ ev' = NoEv
    /\ UNCHANGED sifting
    /\ UNCHANGED <<jl_n_threads, heap_p, sleep_threshold, heaps, tprio, ttid,
                   sleep_check_state, uv_owner, uv_pending, signalled, crashed,
                   outstanding>>

\* partr.c:140: jl_atomic_compare_exchange(&heaps[rn].prio, prio, task->prio)
multiq_insert_cas(p) ==
    LET rn == th[p].rn IN
    /\ ~crashed
    /\ th[p].pc = "ins_cas"
    /\ heaps' = IF heaps[rn].prio = th[p].prio
                THEN [heaps EXCEPT ![rn].prio = tprio[th[p].task]]
                ELSE heaps
    /\ th' = [th EXCEPT ![p] = ToWake(p)]
    /\ ev' = NoEv
    /\ UNCHANGED sifting
    /\ UNCHANGED <<jl_n_threads, heap_p, sleep_threshold, tprio, ttid,
                   sleep_check_state, uv_owner, uv_pending, signalled, crashed,
                   outstanding>>

\* --------------------------------------------------------- multiq_deletemin

\* where jl_task_get_next goes on when get_next_task returns NULL at the
\* call of partr.c:389 (site 1), 397 (2), 404 (3) or 413 (4)
AfterNull(site) ==
    CASE site = 1 -> "spin"
      [] site = 2 -> "sc"
      [] site = 3 -> "uv_try"
      [] site = 4 -> "uv_chk"

\* a loop that gives up after its first attempt
NextAttempt_once(p) ==
    [th[p] EXCEPT !.pc = AfterNull(th[p].site), !.i = 0, !.rn = 0, !.prio = 0]

\* thread p's locals when multiq_deletemin ends an attempt (the continue of
\* partr.c:165, a failed trylock or revalidation): the next attempt, or the
\* return of NULL at partr.c:172-173
NextAttempt(p) ==
    IF th[p].i + 1 = heap_p
    THEN [th[p] EXCEPT !.pc = AfterNull(th[p].site), !.i = 0, !.rn = 0,
                       !.prio = 0]
    ELSE [th[p] EXCEPT !.pc = "dm_probe", !.i = th[p].i + 1, !.rn = 0,
                       !.prio = 0]

\* a claim that ignores the owner
can_claim_any(owner, self) == TRUE

\* partr.c:176-177: may the thread take a task whose tid is owner?
can_claim(owner, self) == owner = self \/ owner = -1

\* the sticky hook's result (jl_apply(&getsticky), partr.c:367): a task of
\* the thread's own queue, which is in no heap and is not another thread's
sticky_hook(p, t) == Free(t) /\ ttid[t] \in {-1, p}

\* task->tid after partr.c:370-372 (and 176-177): set from -1 to self
claimed_tid(owner, self) == IF owner # self /\ owner = -1 THEN self ELSE owner

\* a test that takes the hook's task only when no heap's cached priority
\* is better than the task's
is_task_best(t) == \A r \in Shards : tprio[t] <= heaps[r].prio

\* partr.c:367 `jl_typeis(task, jl_task_type)`: what the hook returned is a
\* task; its priority is not looked at
is_task(t) == t \in Tasks

\* get_next_task (partr.c:365-374): the sticky hook returns a task
get_next_task_sticky(p) ==
    /\ ~crashed
    /\ th[p].pc = "gn"
    /\ \E t \in Tasks :
         /\ sticky_hook(p, t)
         /\ IF is_task(t)
            THEN /\ ttid' = [ttid EXCEPT ![t] = claimed_tid(ttid[t], p)]
                 /\ ev' = Event("ret", p, t, -1, ttid[t], 0, EmptyHeap)
                 /\ th' = [th EXCEPT ![p] = Idle]
            ELSE /\ ttid' = ttid
                 /\ ev' = Event("not_task", p, t, -1, ttid[t], 0, EmptyHeap)
                 /\ th' = [th EXCEPT ![p].pc = "dm_probe", ![p].i = 0]
    /\ UNCHANGED sifting
    /\ UNCHANGED <<jl_n_threads, heap_p, sleep_threshold, heaps, tprio,
                   sleep_check_state, uv_owner, uv_pending, signalled, crashed,
                   outstanding>>

\* get_next_task (partr.c:375): the hook returns nothing, multiq_deletemin
\* starts (partr.c:154-155)
get_next_task_multiq(p) ==
    /\ ~crashed
    /\ th[p].pc = "gn"
    /\ th' = [th EXCEPT ![p].pc = "dm_probe", ![p].i = 0]
    /\ ev' = NoEv
    /\ UNCHANGED sifting
    /\ UNCHANGED <<jl_n_threads, heap_p, sleep_threshold, heaps, tprio, ttid,
                   sleep_check_state, uv_owner, uv_pending, signalled, crashed,
                   outstanding>>

\* partr.c:156-165: two random heaps, their cached priorities, the choice.
\* The two loads are one step: the heap and the value chosen are those of
\* one of the loads, and the choice of rn1 and rn2 is free.
multiq_deletemin_probe(p) ==
    /\ ~crashed
    /\ th[p].pc = "dm_probe"
    /\ \E rn1, rn2 \in Shards :
         LET prio1 == heaps[rn1].prio
             prio2 == heaps[rn2].prio
         IN  th' = [th EXCEPT ![p] =
                 IF prio1 > prio2
                 THEN [@ EXCEPT !.pc = "dm_lock", !.rn = rn2, !.prio = prio2]
                 ELSE IF prio1 = prio2 /\ prio1 = INT16_MAX
                 THEN NextAttempt(p)
                 ELSE [@ EXCEPT !.pc = "dm_lock", !.rn = rn1, !.prio = prio1]]
    /\ ev' = IF th'[p].pc \in {"dm_probe", "dm_lock"}
             THEN NoEv
             ELSE Event("none_found", p, NULL, -1, th[p].i + 1, 0, EmptyHeap)
    /\ UNCHANGED sifting
    /\ UNCHANGED <<jl_n_threads, heap_p, sleep_threshold, heaps, tprio, ttid,
                   sleep_check_state, uv_owner, uv_pending, signalled, crashed,
                   outstanding>>

\* partr.c:166: jl_mutex_trylock_nogc(&heaps[rn1].lock)
multiq_deletemin_trylock(p) ==
    LET rn == th[p].rn IN
    /\ ~crashed
    /\ th[p].pc = "dm_lock"
    /\ IF heaps[rn].lock = NoThread
       THEN /\ heaps' = [heaps EXCEPT ![rn].lock = p]
            /\ th' = [th EXCEPT ![p].pc = "dm_reval"]
       ELSE /\ th' = [th EXCEPT ![p] = NextAttempt(p)]
            /\ UNCHANGED heaps
    /\ ev' = IF th'[p].pc \in {"dm_probe", "dm_reval"}
             THEN NoEv
             ELSE Event("none_found", p, NULL, -1, th[p].i + 1, 0, EmptyHeap)
    /\ UNCHANGED sifting
    /\ UNCHANGED <<jl_n_threads, heap_p, sleep_threshold, tprio, ttid,
                   sleep_check_state, uv_owner, uv_pending, signalled, crashed,
                   outstanding>>

\* partr.c:167: is the cached priority still the heap's?
revalidated(prio1, h) == prio1 = h.prio

\* partr.c:167-169: revalidate under the lock, unlock when it fails
multiq_deletemin_revalidate(p) ==
    LET rn == th[p].rn IN
    /\ ~crashed
    /\ th[p].pc = "dm_reval"
    /\ IF revalidated(th[p].prio, heaps[rn])
       THEN /\ th' = [th EXCEPT ![p].pc = "dm_claim"]
            /\ UNCHANGED heaps
       ELSE /\ heaps' = [heaps EXCEPT ![rn].lock = NoThread]
            /\ th' = [th EXCEPT ![p] = NextAttempt(p)]
    /\ ev' = IF th'[p].pc \in {"dm_probe", "dm_claim"}
             THEN NoEv
             ELSE Event("none_found", p, NULL, -1, th[p].i + 1, 0, EmptyHeap)
    /\ UNCHANGED sifting
    /\ UNCHANGED <<jl_n_threads, heap_p, sleep_threshold, tprio, ttid,
                   sleep_check_state, uv_owner, uv_pending, signalled, crashed,
                   outstanding>>

\* a refusal that keeps the lock
heap_refuse_locked(h) == h

\* partr.c:178: the heap when the root is left to its owner: only unlocked
heap_refuse(h) == [h EXCEPT !.lock = NoThread]

\* partr.c:175-192, under the lock: load the root and its tid; a root that
\* is another thread's is left, the lock released and the probing restarted;
\* else the root is claimed and popped, prio stored, the lock released and
\* the task returned.  The root of an empty heap is NULL: the load of
\* task->tid faults, which ends the process.
multiq_deletemin_pop(p) ==
    LET rn == th[p].rn
        h == heaps[rn]
        task == h.tasks[0]
    IN  /\ ~crashed
        /\ th[p].pc = "dm_claim"
        /\ IF task = NULL
           THEN /\ crashed' = TRUE
                /\ ev' = Event("fault", p, NULL, rn, h.ntasks, th[p].prio, h)
                /\ UNCHANGED <<heaps, ttid, th, outstanding>>
           ELSE IF ~can_claim(ttid[task], p)
           THEN /\ heaps' = [heaps EXCEPT ![rn] = heap_refuse(h)]
                /\ th' = [th EXCEPT ![p].pc = "dm_probe", ![p].i = 0,
                                    ![p].rn = 0, ![p].prio = 0]
                /\ ev' = Event("refused", p, task, rn, ttid[task], th[p].prio, h)
                /\ UNCHANGED <<ttid, crashed, outstanding>>
           ELSE /\ heaps' = [heaps EXCEPT
                               ![rn] = [heap_pop(h) EXCEPT !.lock = NoThread]]
                /\ ttid' = [ttid EXCEPT ![task] = claimed_tid(ttid[task], p)]
                /\ th' = [th EXCEPT ![p] = Idle]
                /\ ev' = Event("ret", p, task, rn, ttid[task], th[p].prio, h)
                /\ outstanding' = [outstanding EXCEPT ![task] = @ - 1]
                /\ UNCHANGED crashed
        /\ UNCHANGED sifting
        /\ UNCHANGED <<jl_n_threads, heap_p, sleep_threshold, tprio,
                       sleep_check_state, uv_owner, uv_pending, signalled>>

\* -------------------------------------------------------- jl_task_get_next

\* a test that takes every threshold for a finite one
parking_always(threshold) == TRUE

\* partr.c:308 `if (sleep_threshold)`: the threshold "infinite" is stored as
\* 0 (partr.c:257-258) and skips the whole sleep check
parking_enabled(threshold) == threshold # 0

\* the top of the loop of jl_task_get_next (partr.c:387-389), thread p's
\* spin_count and start_cycles as given
LoopTop(p, spin, start) ==
    [Idle EXCEPT !.pc = "gn", !.site = 1, !.spin_count = spin,
                 !.start_cycles = start]

\* user code on thread p calls jl_task_get_next (partr.c:379-389)
jl_task_get_next(p) ==
    /\ ~crashed
    /\ th[p].pc = "run"
    /\ th' = [th EXCEPT ![p] = LoopTop(p, 0, FALSE)]
    /\ ev' = NoEv
    /\ UNCHANGED sifting
    /\ UNCHANGED <<jl_n_threads, heap_p, sleep_threshold, heaps, tprio, ttid,
                   sleep_check_state, uv_owner, uv_pending, signalled, crashed,
                   outstanding>>

\* partr.c:393-397: once spin_count passes the limit and nobody waits for
\* the event loop (jl_uv_n_waiters, the environment's), process the pending
\* events and try again.  jl_process_events runs the loop only when it gets
\* jl_uv_mutex (one thread runs the event loop at a time), and then may take
\* a pending wakeup.  spin_count is kept up to SPIN_LIMIT:
\* ++spin_count > SPIN_LIMIT reads no more of it.
spin(p) ==
    /\ ~crashed
    /\ th[p].pc = "spin"
    /\ \E no_waiters, drained \in BOOLEAN :
         IF th[p].spin_count >= SPIN_LIMIT /\ no_waiters
         THEN /\ drained => uv_owner = NoThread
              /\ th' = [th EXCEPT ![p].pc = "gn", ![p].site = 2,
                                  ![p].spin_count = 0]
              /\ uv_pending' = (uv_pending /\ ~drained)
         ELSE /\ ~drained
              /\ th' = [th EXCEPT ![p].pc = "sc",
                          ![p].spin_count =
                              IF @ >= SPIN_LIMIT THEN @ ELSE @ + 1]
              /\ UNCHANGED uv_pending
    /\ ev' = NoEv
    /\ UNCHANGED sifting
    /\ UNCHANGED <<jl_n_threads, heap_p, sleep_threshold, heaps, tprio, ttid,
                   sleep_check_state, uv_owner, signalled, crashed,
                   outstanding>>

\* sleep_check_after_threshold (partr.c:306-321) up to its call of
\* sleep_check_now: start_cycles is zero (FALSE) or a time; whether the
\* threshold has elapsed since is the clock's
sleep_check_after_threshold(p) ==
    /\ ~crashed
    /\ th[p].pc = "sc"
    /\ \E elapsed \in BOOLEAN :
         th' = [th EXCEPT ![p] =
             IF ~parking_enabled(sleep_threshold)
             THEN LoopTop(p, @.spin_count, @.start_cycles)
             ELSE IF ~@.start_cycles
             THEN LoopTop(p, @.spin_count, TRUE)
             ELSE IF elapsed
             THEN [@ EXCEPT !.pc = "scn_load"]
             ELSE LoopTop(p, @.spin_count, @.start_cycles)]
    /\ ev' = Event("threshold", p, NULL, -1, sleep_threshold, 0, EmptyHeap)
    /\ UNCHANGED sifting
    /\ UNCHANGED <<jl_n_threads, heap_p, sleep_threshold, heaps, tprio, ttid,
                   sleep_check_state, uv_owner, uv_pending, signalled, crashed,
                   outstanding>>

\* sleep_check_now returns 0: partr.c:317 zeroes start_cycles, the loop goes on
SleepNo(p) == LoopTop(p, th[p].spin_count, FALSE)

\* sleep_check_now returns 1: get_next_task at partr.c:404
SleepYes(p) == [th[p] EXCEPT !.pc = "gn", !.site = 3, !.i = 0]

\* sleep_check_now, partr.c:210-220 and 238-239: the first load of the state
sleep_check_now_load(p) ==
    /\ ~crashed
    /\ th[p].pc = "scn_load"
    /\ th' = [th EXCEPT ![p] =
           IF sleep_check_state = checking_for_sleeping
           THEN [@ EXCEPT !.pc = "scn_spin"]
           ELSE IF sleep_check_state = not_sleeping
           THEN [@ EXCEPT !.pc = "scn_cas"]
           ELSE SleepYes(p)]
    /\ ev' = NoEv
    /\ UNCHANGED sifting
    /\ UNCHANGED <<jl_n_threads, heap_p, sleep_threshold, heaps, tprio, ttid,
                   sleep_check_state, uv_owner, uv_pending, signalled, crashed,
                   outstanding>>

\* partr.c:214-218: wait until the checking thread has decided
sleep_check_now_spin(p) ==
    /\ ~crashed
    /\ th[p].pc = "scn_spin"
    /\ sleep_check_state # checking_for_sleeping
    /\ th' = [th EXCEPT ![p] =
           IF sleep_check_state = not_sleeping THEN SleepNo(p) ELSE SleepYes(p)]
    /\ ev' = NoEv
    /\ UNCHANGED sifting
    /\ UNCHANGED <<jl_n_threads, heap_p, sleep_threshold, heaps, tprio, ttid,
                   sleep_check_state, uv_owner, uv_pending, signalled, crashed,
                   outstanding>>

\* partr.c:222-223: compare-and-swap not_sleeping to checking_for_sleeping
sleep_check_now_cas(p) ==
    /\ ~crashed
    /\ th[p].pc = "scn_cas"
    /\ IF sleep_check_state = not_sleeping
       THEN /\ sleep_check_state' = checking_for_sleeping
            /\ th' = [th EXCEPT ![p].pc = "snap", ![p].i = 0]
            /\ ev' = Event("checking", p, NULL, -1, -1, 0, EmptyHeap)
       ELSE /\ th' = [th EXCEPT ![p].pc = "scn_load"]
            /\ ev' = NoEv
            /\ UNCHANGED sleep_check_state
    /\ UNCHANGED sifting
    /\ UNCHANGED <<jl_n_threads, heap_p, sleep_threshold, heaps, tprio, ttid,
                   uv_owner, uv_pending, signalled, crashed, outstanding>>

\* snapshot (partr.c:196-204): one read of heaps[i].ntasks, without the lock
snapshot(p) ==
    LET i == th[p].i IN
    /\ ~crashed
    /\ th[p].pc = "snap"
    /\ th' = [th EXCEPT ![p] =
           IF heaps[i].ntasks # 0
           THEN [@ EXCEPT !.pc = "scn_store", !.i = 0]
           ELSE IF i + 1 = heap_p
           THEN [@ EXCEPT !.pc = "scn_cas2", !.i = 0]
           ELSE [@ EXCEPT !.i = i + 1]]
    /\ ev' = NoEv
    /\ UNCHANGED sifting
    /\ UNCHANGED <<jl_n_threads, heap_p, sleep_threshold, heaps, tprio, ttid,
                   sleep_check_state, uv_owner, uv_pending, signalled, crashed,
                   outstanding>>

\* partr.c:232-233: a heap holds a task: store not_sleeping, return 0
sleep_check_now_store(p) ==
    /\ ~crashed
    /\ th[p].pc = "scn_store"
    /\ sleep_check_state' = not_sleeping
    /\ th' = [th EXCEPT ![p] = SleepNo(p)]
    /\ ev' = Event("decided", p, NULL, -1, sleep_check_state, 0, EmptyHeap)
    /\ UNCHANGED sifting
    /\ UNCHANGED <<jl_n_threads, heap_p, sleep_threshold, heaps, tprio, ttid,
                   uv_owner, uv_pending, signalled, crashed, outstanding>>

\* partr.c:226-228 and 236: every heap was empty: compare-and-swap
\* checking_for_sleeping to sleeping, return 1, or start over
sleep_check_now_cas2(p) ==
    /\ ~crashed
    /\ th[p].pc = "scn_cas2"
    /\ IF sleep_check_state = checking_for_sleeping
       THEN /\ sleep_check_state' = sleeping
            /\ th' = [th EXCEPT ![p] = SleepYes(p)]
            /\ ev' = Event("decided", p, NULL, -1, sleep_check_state, 0,
                           EmptyHeap)
       ELSE /\ th' = [th EXCEPT ![p].pc = "scn_load"]
            /\ ev' = NoEv
            /\ UNCHANGED sleep_check_state
    /\ UNCHANGED sifting
    /\ UNCHANGED <<jl_n_threads, heap_p, sleep_threshold, heaps, tprio, ttid,
                   uv_owner, uv_pending, signalled, crashed, outstanding>>

\* partr.c:407-410: one thread wins jl_uv_mutex and watches the event loop,
\* the others go on to their wake signal
uv_trylock(p) ==
    /\ ~crashed
    /\ th[p].pc = "uv_try"
    /\ IF uv_owner = NoThread
       THEN /\ uv_owner' = p
            /\ th' = [th EXCEPT ![p].pc = "uv_run"]
       ELSE /\ th' = [th EXCEPT ![p].pc = "cv_chk"]
            /\ UNCHANGED uv_owner
    /\ ev' = NoEv
    /\ UNCHANGED sifting
    /\ UNCHANGED <<jl_n_threads, heap_p, sleep_threshold, heaps, tprio, ttid,
                   sleep_check_state, uv_pending, signalled, crashed,
                   outstanding>>

\* partr.c:411-413: uv_run(loop, UV_RUN_ONCE) returns, on the pending
\* wakeup of jl_wake_libuv; the mutex is released
uv_run_woken(p) ==
    /\ ~crashed
    /\ th[p].pc = "uv_run"
    /\ uv_pending
    /\ uv_pending' = FALSE
    /\ uv_owner' = NoThread
    /\ th' = [th EXCEPT ![p].pc = "gn", ![p].site = 4]
    /\ ev' = NoEv
    /\ UNCHANGED sifting
    /\ UNCHANGED <<jl_n_threads, heap_p, sleep_threshold, heaps, tprio, ttid,
                   sleep_check_state, signalled, crashed, outstanding>>

\* partr.c:411-413: uv_run returns on an event of the environment (I/O, a
\* timer)
uv_run_event(p) ==
    /\ ~crashed
    /\ th[p].pc = "uv_run"
    /\ ~uv_pending
    /\ uv_owner' = NoThread
    /\ th' = [th EXCEPT ![p].pc = "gn", ![p].site = 4]
    /\ ev' = NoEv
    /\ UNCHANGED sifting
    /\ UNCHANGED <<jl_n_threads, heap_p, sleep_threshold, heaps, tprio, ttid,
                   sleep_check_state, uv_pending, signalled, crashed,
                   outstanding>>

\* partr.c:416-419: after the event loop, go on when the state is no longer
\* sleeping
uv_check(p) ==
    /\ ~crashed
    /\ th[p].pc = "uv_chk"
    /\ th' = [th EXCEPT ![p] =
           IF sleep_check_state # sleeping
           THEN LoopTop(p, @.spin_count, FALSE)
           ELSE [@ EXCEPT !.pc = "cv_chk"]]
    /\ ev' = NoEv
    /\ UNCHANGED sifting
    /\ UNCHANGED <<jl_n_threads, heap_p, sleep_threshold, heaps, tprio, ttid,
                   sleep_check_state, uv_owner, uv_pending, signalled, crashed,
                   outstanding>>

\* partr.c:428-434: under the thread's sleep_lock, wait on wake_signal
\* while the state is sleeping.  The lock is held from the load of the state
\* to the wait, so no signal falls between them: the load and the start of
\* the wait are one step.
park(p) ==
    /\ ~crashed
    /\ th[p].pc = "cv_chk"
    /\ th' = [th EXCEPT ![p] =
           IF sleep_check_state = sleeping
           THEN [@ EXCEPT !.pc = "cv_wait"]
           ELSE LoopTop(p, @.spin_count, FALSE)]
    /\ signalled' = [signalled EXCEPT ![p] = FALSE]
    /\ ev' = NoEv
    /\ UNCHANGED sifting
    /\ UNCHANGED <<jl_n_threads, heap_p, sleep_threshold, heaps, tprio, ttid,
                   sleep_check_state, uv_owner, uv_pending, crashed,
                   outstanding>>

\* partr.c:430: uv_cond_wait returns after a signal
cond_wait_signalled(p) ==
    /\ ~crashed
    /\ th[p].pc = "cv_wait"
    /\ signalled[p]
    /\ signalled' = [signalled EXCEPT ![p] = FALSE]
    /\ th' = [th EXCEPT ![p].pc = "cv_chk"]
    /\ ev' = NoEv
    /\ UNCHANGED sifting
    /\ UNCHANGED <<jl_n_threads, heap_p, sleep_threshold, heaps, tprio, ttid,
                   sleep_check_state, uv_owner, uv_pending, crashed,
                   outstanding>>

\* partr.c:430: uv_cond_wait returns spuriously
cond_wait_spurious(p) ==
    /\ ~crashed
    /\ th[p].pc = "cv_wait"
    /\ ~signalled[p]
    /\ th' = [th EXCEPT ![p].pc = "cv_chk"]
    /\ ev' = NoEv
    /\ UNCHANGED sifting
    /\ UNCHANGED <<jl_n_threads, heap_p, sleep_threshold, heaps, tprio, ttid,
                   sleep_check_state, uv_owner, uv_pending, signalled, crashed,
                   outstanding>>

\* --------------------------------------------------------- jl_wakeup_thread

\* a test that takes only a sleeping scheduler for an idle one
was_sleeping(state) == state = sleeping

\* partr.c:342 `state != not_sleeping`: the state the exchange found
was_idle(state) == state # not_sleeping

\* jl_wakeup_thread(tid) (partr.c:335-342) called by user code on thread p
\* after its jl_enqueue_task, with another thread's tid: exchange the state
\* to not_sleeping; signal every thread when parking is enabled and the state
\* was not not_sleeping
jl_wakeup_thread(p) ==
    /\ ~crashed
    /\ th[p].pc = "wake"
    /\ \E tid \in Threads \ {p} :
         /\ sleep_check_state' = not_sleeping
         /\ th' = [th EXCEPT ![p] =
                IF sleep_threshold # 0 /\ was_idle(sleep_check_state)
                THEN [@ EXCEPT !.pc = "wake_sig", !.tid = 0]
                ELSE [@ EXCEPT !.pc = "wake_uv"]]
         /\ ev' = Event("exchange", p, th[p].task, -1, sleep_check_state,
                        tid, EmptyHeap)
    /\ UNCHANGED sifting
    /\ UNCHANGED <<jl_n_threads, heap_p, sleep_threshold, heaps, tprio, ttid,
                   uv_owner, uv_pending, signalled, crashed, outstanding>>

\* jl_wakeup_thread(tid) (partr.c:335-340) called with the caller's own tid:
\* the state is left alone
jl_wakeup_thread_self(p) ==
    /\ ~crashed
    /\ th[p].pc = "wake"
    /\ th' = [th EXCEPT ![p].pc = "wake_uv"]
    /\ ev' = Event("self_wake", p, th[p].task, -1, sleep_check_state, p,
                   EmptyHeap)
    /\ UNCHANGED sifting
    /\ UNCHANGED <<jl_n_threads, heap_p, sleep_threshold, heaps, tprio, ttid,
                   sleep_check_state, uv_owner, uv_pending, signalled, crashed,
                   outstanding>>

\* partr.c:344-345 with wake_thread (partr.c:324-332): one turn of the loop
\* over every tid; the signal reaches a thread that waits
wake_thread(p) ==
    LET tid == th[p].tid IN
    /\ ~crashed
    /\ th[p].pc = "wake_sig"
    /\ signalled' = IF p # tid /\ th[tid].pc = "cv_wait"
                    THEN [signalled EXCEPT ![tid] = TRUE]
                    ELSE signalled
    /\ th' = [th EXCEPT ![p] =
           IF tid + 1 < jl_n_threads
           THEN [@ EXCEPT !.tid = tid + 1]
           ELSE [@ EXCEPT !.pc = "wake_uv", !.tid = 0]]
    /\ ev' = Event("signal", p, NULL, -1, tid, 0, EmptyHeap)
    /\ UNCHANGED sifting
    /\ UNCHANGED <<jl_n_threads, heap_p, sleep_threshold, heaps, tprio, ttid,
                   sleep_check_state, uv_owner, uv_pending, crashed,
                   outstanding>>

\* partr.c:350-353: the caller does not hold jl_uv_mutex (only a thread
\* inside uv_run does): jl_wake_libuv leaves a wakeup pending.  The wake
\* paired with the enqueue of th[p].task is complete.
jl_wake_libuv(p) ==
    /\ ~crashed
    /\ th[p].pc = "wake_uv"
    /\ uv_owner # p
    /\ uv_pending' = TRUE
    /\ th' = [th EXCEPT ![p] = Idle]
    /\ ev' = NoEv
    /\ UNCHANGED sifting
    /\ UNCHANGED <<jl_n_threads, heap_p, sleep_threshold, heaps, tprio, ttid,
                   sleep_check_state, uv_owner, signalled, crashed,
                   outstanding>>

\* ----------------------------------------------------------- specifications

\* Parking enabled: MaxThreads threads, MaxParkTasks task handles; user code
\* pairs every jl_enqueue_task with a jl_wakeup_thread of another thread.
Init == InitWith(MaxThreads, 1, MaxParkTasks, {0})

Next ==
    \E p \in Threads :
        \/ jl_enqueue_task(p)
        \/ multiq_insert_trylock(p)
        \/ multiq_insert_push(p)
        \/ multiq_insert_load(p)
        \/ multiq_insert_cas(p)
        \/ jl_wakeup_thread(p)
        \/ wake_thread(p)
        \/ jl_wake_libuv(p)
        \/ jl_task_get_next(p)
        \/ get_next_task_sticky(p)
        \/ get_next_task_multiq(p)
        \/ multiq_deletemin_probe(p)
        \/ multiq_deletemin_trylock(p)
        \/ multiq_deletemin_revalidate(p)
        \/ multiq_deletemin_pop(p)
        \/ spin(p)
        \/ sleep_check_after_threshold(p)
        \/ sleep_check_now_load(p)
        \/ sleep_check_now_spin(p)
        \/ sleep_check_now_cas(p)
        \/ snapshot(p)
        \/ sleep_check_now_store(p)
        \/ sleep_check_now_cas2(p)
        \/ uv_trylock(p)
        \/ uv_run_woken(p)
        \/ uv_run_event(p)
        \/ uv_check(p)
        \/ park(p)
        \/ cond_wait_signalled(p)
        \/ cond_wait_spurious(p)

Spec == Init /\ [][Next]_vars

\* The multi-queue under concurrency, parking disabled (the threshold
\* "infinite", stored as 0): MaxThreads threads, MaxTasks task handles.
InitMQ == InitWith(MaxThreads, 0, MaxTasks, Prios)

NextMQ ==
    \E p \in Threads :
        \/ jl_enqueue_task(p)
        \/ multiq_insert_trylock(p)
        \/ multiq_insert_push(p)
        \/ multiq_insert_load(p)
        \/ multiq_insert_cas(p)
        \/ jl_wakeup_thread(p)
        \/ jl_wakeup_thread_self(p)
        \/ jl_wake_libuv(p)
        \/ jl_task_get_next(p)
        \/ get_next_task_sticky(p)
        \/ get_next_task_multiq(p)
        \/ multiq_deletemin_probe(p)
        \/ multiq_deletemin_trylock(p)
        \/ multiq_deletemin_revalidate(p)
        \/ multiq_deletemin_pop(p)
        \/ spin(p)
        \/ sleep_check_after_threshold(p)

SpecMQ == InitMQ /\ [][NextMQ]_vars

\* One heap used by one thread: tasks_per_heap + 1 task handles, so that the
\* heap fills and one more insert is tried.
InitHeap == InitWith(1, 0, tasks_per_heap + 1, HeapPrios)

NextHeap ==
    \E p \in Threads :
        \/ jl_enqueue_task(p)
        \/ multiq_insert_trylock(p)
        \/ multiq_insert_push(p)
        \/ multiq_insert_load(p)
        \/ multiq_insert_cas(p)
        \/ jl_wakeup_thread_self(p)
        \/ jl_wake_libuv(p)
        \/ jl_task_get_next(p)
        \/ get_next_task_multiq(p)
        \/ multiq_deletemin_probe(p)
        \/ multiq_deletemin_trylock(p)
        \/ multiq_deletemin_revalidate(p)
        \/ multiq_deletemin_pop(p)
        \/ spin(p)
        \/ sleep_check_after_threshold(p)

SpecHeap == InitHeap /\ [][NextHeap]_vars

\* ---------------------------------------------------------------- fairness

\* the threads and heaps of the specifications of MaxThreads threads
AllThreads == 0 .. (MaxThreads - 1)
AllShards == 0 .. (heap_c * MaxThreads - 1)

\* A step of thread p inside the runtime: everything but the decisions of
\* user code (to enqueue a task, to call jl_task_get_next), the answer of
\* the sticky hook, an event arriving on the event loop and a spurious
\* return of uv_cond_wait.  A scheduled thread takes such a step.
RuntimeStep(p) ==
    \/ multiq_insert_trylock(p)
    \/ multiq_insert_push(p)
    \/ multiq_insert_load(p)
    \/ multiq_insert_cas(p)
    \/ jl_wakeup_thread(p)
    \/ jl_wakeup_thread_self(p)
    \/ wake_thread(p)
    \/ jl_wake_libuv(p)
    \/ get_next_task_multiq(p)
    \/ multiq_deletemin_probe(p)
    \/ multiq_deletemin_trylock(p)
    \/ multiq_deletemin_revalidate(p)
    \/ multiq_deletemin_pop(p)
    \/ spin(p)
    \/ sleep_check_after_threshold(p)
    \/ sleep_check_now_load(p)
    \/ sleep_check_now_spin(p)
    \/ sleep_check_now_cas(p)
    \/ snapshot(p)
    \/ sleep_check_now_store(p)
    \/ sleep_check_now_cas2(p)
    \/ uv_trylock(p)
    \/ uv_run_woken(p)
    \/ uv_check(p)
    \/ park(p)
    \/ cond_wait_signalled(p)

\* cong (partr.c:156-157) gives heap r, holding a task, to thread p
PickShard(p, r) ==
    multiq_deletemin_probe(p) /\ th'[p].pc = "dm_lock" /\ th'[p].rn = r

\* jl_hrtime (partr.c:313-314) has passed the threshold
ThresholdElapsed(p) ==
    sleep_check_after_threshold(p) /\ th'[p].pc = "scn_load"

\* Fair scheduling of the threads, a fair random number generator and a
\* clock that advances.
Fairness ==
    /\ \A p \in AllThreads : WF_vars(RuntimeStep(p))
    /\ \A p \in AllThreads : SF_vars(ThresholdElapsed(p))
    /\ \A p \in AllThreads : \A r \in AllShards : SF_vars(PickShard(p, r))

\* Spec under fair scheduling
SpecFair == Init /\ [][Next]_vars /\ Fairness

\* One thread, parking disabled, MaxTasks task handles whose priorities
\* include the largest int16_t, under fair scheduling.
MaxPrios == {0, INT16_MAX}

InitOne == InitWith(1, 0, MaxTasks, MaxPrios)

FairnessOne ==
    /\ WF_vars(RuntimeStep(0))
    /\ \A r \in 0 .. (heap_c - 1) : SF_vars(PickShard(0, r))

SpecFairOne == InitOne /\ [][NextHeap]_vars /\ FairnessOne

\* ------------------------------------------------------------------ claims

\* the number of slots, over all heaps, that hold task t
Occurrences(t) ==
    Cardinality({x \in Shards \X Slots : heaps[x[1]].tasks[x[2]] = t})

\* the heap order over tasks[0..ntasks) with branching factor heap_d
IsHeap(h) ==
    \A i \in Slots : \A k \in Slots :
        (i < h.ntasks /\ k < h.ntasks /\ heap_d * i + 1 <= k
            /\ k <= heap_d * i + heap_d)
        => tprio[h.tasks[i]] <= tprio[h.tasks[k]]

\* C1: every task enqueued and not yet returned occupies exactly one slot of
\* exactly one heap, among the first ntasks slots; a task that is not
\* enqueued, or has been returned, occupies none; no task is returned more
\* often than it was enqueued.
C1_TaskConservation ==
    \A t \in Tasks :
        /\ outstanding[t] \in {0, 1}
        /\ Occurrences(t) = outstanding[t]
        /\ \A r \in Shards : \A s \in Slots :
             heaps[r].tasks[s] = t => s < heaps[r].ntasks

\* C1's case: multiq_deletemin has returned a task while another task stays
\* enqueued
C1_Witness ==
    /\ ev.type = "ret"
    /\ ev.rn >= 0
    /\ \E t \in Tasks : t # ev.t /\ outstanding[t] = 1

\* an insert is between its unlock and the end of its update of prio
InsertUpdating(r) ==
    \E p \in Threads : th[p].pc \in {"ins_load", "ins_cas"} /\ th[p].rn = r

\* C3: for every heap whose lock is free and on which no insert has its
\* update of the cached priority still to do, prio is the priority of
\* tasks[0] when the heap holds a task and INT16_MAX when it holds none.
C3_MinPrioIsRoot ==
    \A r \in Shards :
        (heaps[r].lock = NoThread /\ ~InsertUpdating(r))
        => heaps[r].prio = IF heaps[r].ntasks > 0
                           THEN tprio[heaps[r].tasks[0]]
                           ELSE INT16_MAX

C5_OwnerOnReturn ==
    ev.type = "ret" => (ev.n \in {-1, ev.p} /\ ttid[ev.t] = ev.p)

\* C5's case: the multi-queue returned a task that had no owner, while a
\* task owned by another thread exists
C5_Witness ==
    /\ ev.type = "ret"
    /\ ev.rn >= 0
    /\ ev.n = -1
    /\ \E t \in Tasks : ttid[t] \notin {-1, ev.p}

\* C6: when worker w has locked a heap whose root T is owned by another
\* worker, the step does not return T: it releases the lock and leaves
\* ntasks, tasks (T still at the root) and prio as they were.
C6_AffinityRespected ==
    (ev.type \in {"ret", "refused"} /\ ev.rn >= 0 /\ ev.n \notin {-1, ev.p})
    => /\ ev.type = "refused"
       /\ heaps[ev.rn].lock = NoThread
       /\ heaps[ev.rn].ntasks = ev.old.ntasks
       /\ heaps[ev.rn].tasks = ev.old.tasks
       /\ heaps[ev.rn].tasks[0] = ev.t
       /\ heaps[ev.rn].prio = ev.old.prio
       /\ outstanding[ev.t] = 1
       /\ ttid[ev.t] = ev.n

\* C6's case: a worker has locked a heap whose root is another worker's
C6_Witness ==
    /\ ev.type = "refused"
    /\ ev.old.lock = ev.p
    /\ ev.old.tasks[0] = ev.t
    /\ ttid[ev.t] \in Threads \ {ev.p}

\* C10: an insert that has locked a heap of fewer than tasks_per_heap tasks
\* succeeds and adds its task; one that has locked a heap of tasks_per_heap
\* tasks fails, releases the lock and leaves ntasks, tasks (in heap order)
\* and prio as they were.
C10_CapacityCeiling ==
    /\ ev.type = "ins_ok"
       => /\ ev.n < tasks_per_heap
          /\ heaps[ev.rn].ntasks = ev.n + 1
          /\ Occurrences(ev.t) = 1
          /\ outstanding[ev.t] = 1
    /\ ev.type = "ins_full"
       => /\ ev.n = tasks_per_heap
          /\ heaps[ev.rn].lock = NoThread
          /\ heaps[ev.rn].ntasks = ev.old.ntasks
          /\ heaps[ev.rn].tasks = ev.old.tasks
          /\ heaps[ev.rn].prio = ev.old.prio
          /\ IsHeap(heaps[ev.rn])
          /\ Occurrences(ev.t) = 0

\* C10's case: an insert found the heap full, after the insert that filled it
C10_Witness ==
    /\ ev.type = "ins_full"
    /\ ev.old.ntasks = tasks_per_heap
    /\ ev.old.lock = ev.p

\* worker w is blocked in uv_cond_wait (partr.c:430) and no signal is on its
\* way to it
Blocked(w) == th[w].pc = "cv_wait" /\ ~signalled[w]

\* the enqueue of t, or the jl_wakeup_thread paired with it, is under way
WakePending(t) ==
    \E p \in Threads :
        /\ th[p].task = t
        /\ th[p].pc \in {"ins_lock", "ins_push", "ins_load", "ins_cas",
                         "wake", "wake_sig", "wake_uv"}

\* some thread is inside sleep_check_now (partr.c:207-241)
Deciding ==
    \E p \in Threads :
        th[p].pc \in {"scn_load", "scn_spin", "scn_cas", "snap", "scn_store",
                      "scn_cas2"}

\* C2: no worker is blocked in the condition wait of its park slot, with no
\* signal on its way and no sleep decision in progress, while a task whose
\* enqueue and paired wake are complete is in the multi-queue.
C2_NoLostWakeup ==
    \A w \in Threads : \A t \in Tasks :
        ~(Blocked(w) /\ ~Deciding /\ outstanding[t] = 1 /\ ~WakePending(t))

\* thread w is inside jl_task_get_next
InLoop(w) ==
    th[w].pc \notin {"run", "ins_lock", "ins_push", "ins_load", "ins_cas",
                     "wake", "wake_sig", "wake_uv"}

\* thread w is blocked in uv_cond_wait (partr.c:430) or in uv_run
\* (partr.c:411)
Parked(w) == th[w].pc \in {"cv_wait", "uv_run"}

\* C7: with a non-zero threshold, when a thread has enqueued T and issued
\* jl_wakeup_thread for another thread while some worker is parked and T is
\* in the multi-queue, T is eventually returned by jl_task_get_next.
C7_WakeDelivers ==
    \A p \in AllThreads : \A t \in 1 .. MaxParkTasks :
        (/\ ev.type = "exchange"
         /\ ev.p = p
         /\ th[p].task = t
         /\ outstanding[t] = 1
         /\ \E w \in AllThreads : Parked(w))
        ~> (outstanding[t] = 0)

\* C8: whatever its priority, a task in the multi-queue that the single
\* worker may take is eventually returned to it, while the worker stays in
\* jl_task_get_next.
C8_NextReturns ==
    \A t \in 1 .. MaxTasks :
        (outstanding[t] = 1 /\ ttid[t] \in {-1, 0} /\ InLoop(0))
        ~> (outstanding[t] = 0 \/ ~InLoop(0))

\* every heap is empty, no enqueue or wake is under way and
\* jl_task_get_next has not just returned a task
Quiet ==
    /\ ev.type # "ret"
    /\ \A r \in AllShards : heaps[r].ntasks = 0
    /\ \A p \in AllThreads :
         th[p].pc \notin {"ins_lock", "ins_push", "ins_load", "ins_cas",
                          "wake", "wake_sig", "wake_uv"}

\* C9: with a non-zero threshold, a worker that stays in jl_task_get_next
\* while the heaps stay empty, the sticky hook returns nothing and no wake is
\* issued, is eventually parked with sleep_check_state sleeping.
C9_IdleParks ==
    \A w \in AllThreads :
        (Quiet /\ InLoop(w))
        ~> (~Quiet \/ ~InLoop(w)
              \/ (Parked(w) /\ sleep_check_state = sleeping))

\* ----------------------------------------------------- parking disabled

\* jl_init_threadinginfra (partr.c:254-261) takes the threshold from the
\* environment: "infinite" is stored as 0, any other text as its number
Thresholds == {0, 1}

InitAny ==
    \E threshold \in Thresholds :
        InitWith(MaxThreads, threshold, MaxParkTasks, {0})

SpecAny == InitAny /\ [][Next]_vars

\* the places of the sleep check proper (sleep_check_now, partr.c:207-241)
\* and of the parking phase of jl_task_get_next (partr.c:403-436)
InSleepCheck(p) ==
    th[p].pc \in {"scn_load", "scn_spin", "scn_cas", "snap", "scn_store",
                  "scn_cas2"}

InParkingPhase(p) ==
    \/ th[p].pc \in {"uv_try", "uv_run", "uv_chk", "cv_chk", "cv_wait"}
    \/ th[p].site \in {3, 4}

\* C11: with the threshold stored as 0 no thread is ever inside
\* sleep_check_now, in the parking phase (the blocking uv_run, the wait on
\* its condition variable) and sleep_check_state stays not_sleeping.
C11_InfiniteNeverParks ==
    sleep_threshold = 0 =>
        /\ sleep_check_state = not_sleeping
        /\ \A p \in Threads : ~InSleepCheck(p) /\ ~InParkingPhase(p)
        /\ uv_owner = NoThread

\* a thread with the threshold 0 has found nothing, spun and come through
\* sleep_check_after_threshold, back at the top of the loop
C11_Witness ==
    /\ sleep_threshold = 0
    /\ ev.type = "threshold"
    /\ th[ev.p].pc = "gn"
    /\ th[ev.p].site = 1

\* ------------------------------------------------------------ sticky hook

\* C12: a step of get_next_task in which the hook returned task t returns t
\* to the user code of that thread, whatever the heaps hold, and leaves every
\* heap (lock, ntasks, tasks, prio) as it was.
C12_StickyWins ==
    [][\A p \in Threads, t \in Tasks :
          (/\ th[p].pc = "gn"
           /\ ev'.p = p
           /\ ev'.rn = -1
           /\ ev'.t = t
           /\ ev'.type \in {"ret", "not_task"})
          => (/\ ev'.type = "ret"
              /\ th'[p].pc = "run"
              /\ ttid'[t] = p
              /\ heaps' = heaps)]_vars

\* the hook's task has been returned while a heap holds a task of a better
\* priority, cached as such
C12_Witness ==
    /\ ev.type = "ret"
    /\ ev.rn = -1
    /\ \E r \in Shards :
         /\ heaps[r].ntasks > 0
         /\ heaps[r].lock = NoThread
         /\ heaps[r].prio < tprio[ev.t]
         /\ tprio[heaps[r].tasks[0]] < tprio[ev.t]

\* ------------------------------------------------------- a single worker

\* Two threads, so heap_p = heap_c * 2 heaps, of which thread 0 alone
\* inserts and takes: no step of another thread comes between its calls.
NextSolo ==
    \E p \in {0} :
        \/ jl_enqueue_task(p)
        \/ multiq_insert_trylock(p)
        \/ multiq_insert_push(p)
        \/ multiq_insert_load(p)
        \/ multiq_insert_cas(p)
        \/ jl_wakeup_thread(p)
        \/ jl_wakeup_thread_self(p)
        \/ jl_wake_libuv(p)
        \/ jl_task_get_next(p)
        \/ get_next_task_sticky(p)
        \/ get_next_task_multiq(p)
        \/ multiq_deletemin_probe(p)
        \/ multiq_deletemin_trylock(p)
        \/ multiq_deletemin_revalidate(p)
        \/ multiq_deletemin_pop(p)
        \/ spin(p)
        \/ sleep_check_after_threshold(p)

SpecSolo == InitMQ /\ [][NextSolo]_vars

\* C13: with every task inserted, each into a heap picked at random, the
\* first task multiq_deletemin returns to the single worker has the best
\* (least) priority of all, whatever heaps insert and delete-min picked.
C13_FirstIsMin ==
    (/\ ev.type = "ret"
     /\ ev.rn >= 0
     /\ \A t \in Tasks \ {ev.t} : Occurrences(t) = 1)
    => \A t \in Tasks : tprio[ev.t] <= tprio[t]

\* ------------------------------------------------- the empty multi-queue

\* every heap holds no task and caches INT16_MAX
AllEmpty ==
    \A r \in Shards : heaps[r].ntasks = 0 /\ heaps[r].prio = INT16_MAX

\* C14: multiq_deletemin starts at attempt 0, and with every heap empty
\* each of its attempts changes no heap, lock or task and goes on to the
\* next attempt, until the heap_p-th, which returns NULL: heap_p attempts.
C14_EmptyGivesNull ==
    [][\A p \in Threads :
          /\ (th[p].pc = "gn" /\ th'[p].pc = "dm_probe") => th'[p].i = 0
          /\ (th[p].pc = "dm_probe" /\ AllEmpty /\ th'[p] # th[p])
             => /\ heaps' = heaps
                /\ ttid' = ttid
                /\ tprio' = tprio
                /\ IF th[p].i + 1 < heap_p
                   THEN /\ th'[p].pc = "dm_probe"
                        /\ th'[p].i = th[p].i + 1
                        /\ ev'.type = "none"
                   ELSE /\ th'[p].pc = AfterNull(th[p].site)
                        /\ ev'.type = "none_found"
                        /\ ev'.p = p
                        /\ ev'.n = heap_p]_vars

\* multiq_deletemin has returned NULL after heap_p attempts, every heap
\* empty and unlocked
C14_Witness ==
    /\ ev.type = "none_found"
    /\ ev.n = heap_p
    /\ AllEmpty
    /\ \A r \in Shards : heaps[r].lock = NoThread

\* -------------------------------------------------------------- the wake

\* C15: jl_wakeup_thread of another thread's tid leaves sleep_check_state at
\* not_sleeping whatever it was; when it was checking_for_sleeping or
\* sleeping and the threshold is not 0, the caller goes through tid 0 ..
\* jl_n_threads - 1 and signals every thread that waits on its condition
\* variable; a thread starts signalling only by the step of its exchange.
C15_WakeExchangesThenSignals ==
    [][\A p \in Threads :
          /\ (th[p].pc = "wake" /\ th'[p] # th[p] /\ ev'.type = "exchange")
             => /\ sleep_check_state' = not_sleeping
                /\ ev'.n = sleep_check_state
                /\ IF /\ sleep_threshold # 0
                      /\ sleep_check_state \in {checking_for_sleeping, sleeping}
                   THEN th'[p].pc = "wake_sig" /\ th'[p].tid = 0
                   ELSE th'[p].pc = "wake_uv"
          /\ (th[p].pc # "wake_sig" /\ th'[p].pc = "wake_sig")
             => ev'.type = "exchange" /\ ev'.p = p
          /\ (th[p].pc = "wake_sig" /\ th'[p] # th[p])
             => LET tid == th[p].tid IN
                /\ (th[tid].pc = "cv_wait" => signalled'[tid])
                /\ IF tid + 1 < jl_n_threads
                   THEN th'[p].pc = "wake_sig" /\ th'[p].tid = tid + 1
                   ELSE th'[p].pc = "wake_uv"]_vars

\* a thread that waits on its condition variable has just been signalled by
\* a waker whose exchange found the state sleeping
C15_Witness ==
    /\ ev.type = "signal"
    /\ ev.n \in Threads
    /\ th[ev.n].pc = "cv_wait"
    /\ signalled[ev.n]
    /\ th[ev.p].pc \in {"wake_sig", "wake_uv"}

\* ------------------------------------------------- the right of deciding

\* thread p is between its compare-exchange not_sleeping ->
\* checking_for_sleeping (partr.c:222) and the store or compare-exchange
\* that ends its decision (partr.c:226, 232)
DecidingThread(p) == th[p].pc \in {"snap", "scn_store", "scn_cas2"}

\* C16: at most one thread at a time is between its successful
\* compare-exchange to checking_for_sleeping and the end of its decision.
C16_DecidingExclusive ==
    \A p, q \in Threads : DecidingThread(p) /\ DecidingThread(q) => p = q

\* C17: no store or compare-exchange of sleep_check_now finds
\* sleep_check_state at sleeping and leaves it at another value; from
\* sleeping the state moves only by the exchange of jl_wakeup_thread.
C17_SleepingLeftOnlyByWake ==
    ev.type = "decided" => ~(ev.n = sleeping /\ sleep_check_state # sleeping)

\* ------------------------------------------------- revalidation and pop

\* C18: a task popped by multiq_deletemin, after the revalidation under the
\* lock, has a priority that is not worse than the cached priority the
\* thread loaded before it took the lock.
C18_PoppedNotWorseThanCached ==
    (ev.type = "ret" /\ ev.rn >= 0) => tprio[ev.t] <= ev.prio

\* C19: a thread that holds a heap's lock after the revalidation and is
\* about to load the root finds ntasks >= 1 and a task in tasks[0]; no load
\* of the root of an empty heap has faulted.
C19_NeverPopsEmpty ==
    /\ ~crashed
    /\ \A p \in Threads :
         th[p].pc = "dm_claim"
         => /\ heaps[th[p].rn].ntasks >= 1
            /\ heaps[th[p].rn].tasks[0] # NULL

\* ------------------------------------- sift_down at the source's own sizes

\* partr.c:36 and partr.c:40 as the source has them; the indices of
\* sift_down are int16_t (partr.c:99, 102)
HeapD == 8
TasksPerHeap == 8192

\* the heap sizes sift_down is entered with: the largest in which no index
\* is at or above 4096, and the next one
SiftSizes == {4096, 4097}

\* the deepest nesting of sift_down followed
MaxFrames == 6

\* partr.c:102: `int16_t child = heap_d*idx + 1`, computed as int and
\* converted to int16_t
first_child(idx) == ToInt16(HeapD * idx + 1)

\* partr.c:103: both comparisons are made in int
loop_cond(idx, child) ==
    child < TasksPerHeap /\ child <= HeapD * idx + HeapD

\* tasks[0 .. ntasks) hold tasks and tasks[ntasks .. tasks_per_heap) are NULL
\* (calloc at partr.c:73, partr.c:136 and 183)
InArray(child) == child >= 0 /\ child < TasksPerHeap

\* the frame of the innermost call of sift_down
top == sifting.frames[Len(sifting.frames)]

\* partr.c:110 and 101-102: the frame of a call sift_down(heap, idx) with
\* idx < ntasks
sift_push(idx) ==
    Append(sifting.frames, [idx |-> idx, child |-> first_child(idx)])

\* the frames when the loop of the top frame goes on to `++child`
sift_advance ==
    [sifting.frames EXCEPT ![Len(sifting.frames)].child = ToInt16(@ + 1)]

\* partr.c:186: multiq_deletemin, having moved the last task to the root,
\* calls sift_down(heap, 0) on a heap of ntasks > 0 tasks (partr.c:101)
sift_down_call ==
    /\ sifting.frames = <<>>
    /\ ~sifting.fault
    /\ \E ntasks \in SiftSizes :
         sifting' = [ntasks |-> ntasks,
                     frames |-> <<[idx |-> 0, child |-> first_child(0)]>>,
                     read |-> <<>>,
                     fault |-> FALSE]
    /\ UNCHANGED <<jl_n_threads, heap_p, sleep_threshold, heaps, tprio, ttid,
                   sleep_check_state, uv_owner, uv_pending, signalled, th,
                   crashed, outstanding, ev>>

\* partr.c:103-111: one turn of the loop of the top frame.  The slot
\* tasks[child] is read; the priorities are not followed, so a task found
\* there may or may not be lower than tasks[idx]: when it is, the two are
\* swapped and sift_down(heap, child) is called (partr.c:110).  A slot
\* outside the array holds whatever the memory before the array holds: a
\* zero word, and the loop goes on, or anything else, and the load of
\* ->prio through it (partr.c:105) ends the process.
sift_down_iter ==
    /\ sifting.frames # <<>>
    /\ ~sifting.fault
    /\ loop_cond(top.idx, top.child)
    /\ \E lower, zero \in BOOLEAN :
         LET wild == ~InArray(top.child) /\ ~zero
             task == InArray(top.child) /\ top.child < sifting.ntasks
         IN  sifting' =
                 [sifting EXCEPT
                    !.read = <<top.idx, top.child>>,
                    !.fault = wild,
                    !.frames =
                        IF wild
                        THEN @
                        ELSE IF task /\ lower /\ Len(@) < MaxFrames
                        THEN sift_push(top.child)
                        ELSE sift_advance]
    /\ UNCHANGED <<jl_n_threads, heap_p, sleep_threshold, heaps, tprio, ttid,
                   sleep_check_state, uv_owner, uv_pending, signalled, th,
                   crashed, outstanding, ev>>

\* partr.c:103, 113: the loop of the top frame is over, sift_down returns
\* and the caller's loop goes on to its `++child`
sift_down_return ==
    /\ sifting.frames # <<>>
    /\ ~sifting.fault
    /\ ~loop_cond(top.idx, top.child)
    /\ sifting' =
           LET rest == SubSeq(sifting.frames, 1, Len(sifting.frames) - 1) IN
           [sifting EXCEPT
              !.read = <<>>,
              !.frames = IF rest = <<>>
                         THEN rest
                         ELSE [rest EXCEPT ![Len(rest)].child = ToInt16(@ + 1)]]
    /\ UNCHANGED <<jl_n_threads, heap_p, sleep_threshold, heaps, tprio, ttid,
                   sleep_check_state, uv_owner, uv_pending, signalled, th,
                   crashed, outstanding, ev>>

InitSift == InitWith(1, 0, 1, {0})

NextSift ==
    \/ sift_down_call
    \/ sift_down_iter
    \/ sift_down_return

SpecSift == InitSift /\ [][NextSift]_vars

\* C20: every slot sift_down reads, for the index idx of its frame, is one
\* of the children heap_d*idx+1 .. heap_d*idx+heap_d of idx and lies inside
\* the array of tasks_per_heap slots; no negative index is used.
C20_ChildIndexInRange ==
    sifting.read # <<>> =>
        LET idx == sifting.read[1]
            child == sifting.read[2]
        IN  /\ child >= HeapD * idx + 1
            /\ child <= HeapD * idx + HeapD
            /\ child >= 0
            /\ child < TasksPerHeap

====
